---- MODULE Spec2Model ----
(***************************************************************************)
(* PPE frame server (src/main.py): one HTTP endpoint, analyze_frame, that  *)
(* saves the uploaded frame, runs the detector, annotates the frame and    *)
(* sends an alert through a per-camera cooldown gate (handle_alert), then  *)
(* removes its temporary files and answers.                                *)
(*                                                                         *)
(* Time is counted in whole seconds, confidences in percent.               *)
(***************************************************************************)
EXTENDS Integers, Sequences, FiniteSets, TLC

\* ------------------------------------------------------------------------
\* Bounds of the model
\* ------------------------------------------------------------------------
NumRequests == 2
MaxTime == 3
MaxCooldown == 2
MaxBoxes == 1
MaxProbe == 3

Requests == 1..NumRequests
Cameras == {"cam-1", "cam-2"}
None == "None"

\* ------------------------------------------------------------------------
\* Configuration and tables
\* ------------------------------------------------------------------------
\* YOLO_CONFIDENCE_THRESHOLD, in percent (0.4)
YOLO_CONFIDENCE_THRESHOLD == 40

\* the values ALERT_COOLDOWN_SECONDS may be configured to
CooldownChoices == 1..MaxCooldown

\* CLASS_TO_PPE as a function on its keys
CLASS_TO_PPE ==
    [k \in {"no-hardhat", "no-gloves", "no-vest", "no-mask", "no-goggles", "no-earplugs"} |->
        CASE k = "no-hardhat" -> "hardhat"
          [] k = "no-gloves" -> "gloves"
          [] k = "no-vest" -> "vest"
          [] k = "no-mask" -> "mask"
          [] k = "no-goggles" -> "goggles"
          [] k = "no-earplugs" -> "earplugs"]

\* what the detector (model.predict) may report for a frame: class name,
\* confidence and corner coordinates of each box; the coordinates are
\* floats, written in tenths of a pixel
RawBoxes ==
    { [cls |-> "no-hardhat", conf |-> 75, x1 |-> 16, y1 |-> 10, x2 |-> 34, y2 |-> 49],
      [cls |-> "no-vest",    conf |-> 39, x1 |-> 0,  y1 |-> 25, x2 |-> 12, y2 |-> 30],
      [cls |-> "person",     conf |-> 90, x1 |-> 0,  y1 |-> 0,  x2 |-> 40, y2 |-> 40] }

RawResults == UNION { [1..n -> RawBoxes] : n \in 0..MaxBoxes }

\* detector outputs for examining detect_missing_ppe on its own
ProbeBoxes ==
    RawBoxes \cup
    { [cls |-> "no-gloves", conf |-> 40, x1 |-> 27, y1 |-> 5, x2 |-> 51, y2 |-> 28] }

ProbeInputs == UNION { [1..n -> ProbeBoxes] : n \in 0..MaxProbe }

\* how the outbound call of send_alert may end: the backend answers with a
\* status code, requests.post raises Timeout or ConnectionError, or open()
\* of the image raises OSError
Response(code) == [kind |-> "response", status |-> code]
Outcomes ==
    { Response(code) : code \in {200, 304, 404} }
    \cup { [kind |-> k, status |-> 0] : k \in {"timeout", "connection_error", "open_error"} }
NoOutcome == [kind |-> "none", status |-> 0]

\* ------------------------------------------------------------------------
\* State
\* ------------------------------------------------------------------------
VARIABLES
    clock,                   \* time.time()
    ALERT_COOLDOWN_SECONDS,  \* the configured cooldown
    last_alert_time,         \* dict camera id -> time of the last recorded alert
    files,                   \* the paths that exist on disk
    req,                     \* per request: position and locals of analyze_frame
    last_failed,             \* per camera: the gate time of a failed dispatch not
                             \* followed by a successful one, if there is one
    alerts,                  \* per camera: the gate times of the requests for
                             \* which send_alert returned True
    delivered,               \* the camera and the time of the latest return of
                             \* True by send_alert, if there is one
    probe                    \* the detector output handed to detect_missing_ppe
                             \* when the function is examined on its own

vars == <<clock, ALERT_COOLDOWN_SECONDS, last_alert_time, files, req, last_failed, alerts,
          delivered, probe>>

\* positions of a request that occupy the event loop
Running == {"Received", "Detected", "NoDetections", "Annotated", "Suppressed",
            "Dispatching", "Sent", "Failed", "CleanedUp"}

Terminals == {"NoDetections", "Suppressed", "Sent", "Failed"}

\* file names are fresh (uuid4) per request: the files of the request on
\* connection r, and the files earlier requests left behind
temp_path(r) == <<"temp", r>>
annotated_file(r) == <<"annotated", r>>
Stale == <<"stale", 0>>
\* annotated_path = None
NoPath == <<"none", 0>>

InitRequest ==
    [pc |-> "Idle", cameraId |-> None, detections |-> <<>>,
     annotated_path |-> NoPath, alert_sent |-> FALSE,
     now |-> 0, last_time |-> 0, had_entry |-> FALSE,
     terminal |-> None, calls |-> 0, cleaned |-> FALSE, response |-> None,
     outcome |-> NoOutcome, raised_by |-> None, remove_log |-> <<>>]

Init ==
    /\ clock = 0
    /\ ALERT_COOLDOWN_SECONDS \in CooldownChoices
    /\ last_alert_time = << >>
    /\ files = {}
    /\ req = [r \in Requests |-> InitRequest]
    /\ last_failed = [c \in Cameras |-> {}]
    /\ alerts = [c \in Cameras |-> {}]
    /\ delivered = {}
    /\ probe = <<>>

\* ------------------------------------------------------------------------
\* Pure helpers
\* ------------------------------------------------------------------------
\* int() of a coordinate given in tenths: truncation towards zero
PixelInt(v) == IF v >= 0 THEN v \div 10 ELSE -((-v) \div 10)

\* detect_missing_ppe's loop body for one box: the detection it appends, if any
NormalizeStrictThreshold(box) ==
    IF box.cls \notin DOMAIN CLASS_TO_PPE THEN <<>>
    ELSE IF box.conf > YOLO_CONFIDENCE_THRESHOLD
         THEN << [missingPpe |-> CLASS_TO_PPE[box.cls],
                  confidence |-> box.conf,
                  bbox |-> [x |-> PixelInt(box.x1), y |-> PixelInt(box.y1),
                            width |-> PixelInt(box.x2) - PixelInt(box.x1),
                            height |-> PixelInt(box.y2) - PixelInt(box.y1)]] >>
         ELSE <<>>
Normalize(box) ==
    IF box.cls \notin DOMAIN CLASS_TO_PPE THEN <<>>
    ELSE IF box.conf >= YOLO_CONFIDENCE_THRESHOLD
         THEN << [missingPpe |-> CLASS_TO_PPE[box.cls],
                  confidence |-> box.conf,
                  bbox |-> [x |-> PixelInt(box.x1), y |-> PixelInt(box.y1),
                            width |-> PixelInt(box.x2) - PixelInt(box.x1),
                            height |-> PixelInt(box.y2) - PixelInt(box.y1)]] >>
         ELSE <<>>

RECURSIVE DetectLoop(_)
DetectLoop(raw) ==
    IF raw = <<>> THEN <<>>
    ELSE Normalize(Head(raw)) \o DetectLoop(Tail(raw))

\* last_alert_time.get(camera_id, 0)
GetLastTime(c) ==
    IF c \in DOMAIN last_alert_time THEN last_alert_time[c] ELSE 0

\* the cooldown test of handle_alert: TRUE when the alert is skipped
CooldownActiveOffByOne(n, last) == n - last <= ALERT_COOLDOWN_SECONDS
CooldownActiveNever(n, last) == FALSE
CooldownActive(n, last) == n - last < ALERT_COOLDOWN_SECONDS

\* last_alert_time after send_alert returned success
RecordCompletionTime(success, c, n) ==
    IF success
    THEN [k \in DOMAIN last_alert_time \cup {c} |->
            IF k = c THEN clock ELSE last_alert_time[k]]
    ELSE last_alert_time
RecordOnlyThisCamera(success, c, n) ==
    IF success THEN [k \in {c} |-> n] ELSE last_alert_time
RecordAlways(success, c, n) ==
    [k \in DOMAIN last_alert_time \cup {c} |->
        IF k = c THEN n ELSE last_alert_time[k]]
Record(success, c, n) ==
    IF success
    THEN [k \in DOMAIN last_alert_time \cup {c} |->
            IF k = c THEN n ELSE last_alert_time[k]]
    ELSE last_alert_time

\* response.raise_for_status(): HTTPError for the 4xx and 5xx codes only
RaiseForStatus(status) == 400 <= status /\ status < 600

\* send_alert(payload, image_path): "True", "False", or "raise" when an
\* exception that is no RequestException leaves it
SendAlert(exists, o) ==
    IF ~exists \/ o.kind = "open_error" THEN "raise"
    ELSE IF o.kind \in {"timeout", "connection_error"} THEN "False"
    ELSE IF RaiseForStatus(o.status) THEN "False"
    ELSE "True"

\* the test of analyze_frame that guards annotation and alerting
HasDetectionsAlways(dets) == TRUE
HasDetections(dets) == dets # <<>>

\* the value handle_alert returns after the dispatch
HandleAlertResultAlwaysTrue(success) == TRUE
HandleAlertResult(success) == success

\* analyze_frame is a coroutine without a suspension point: the event loop
\* runs one request from its first line to its return before the next
EventLoopFreeThreaded == TRUE
EventLoopFree == \A q \in Requests : req[q].pc \notin Running

\* the cleanup loop over [temp_file, annotated_path]; failAt = k makes the
\* k-th os.remove that is attempted raise (0: none does)
\* log is the sequence of paths os.remove was called with
RECURSIVE CleanupLoopNoExistsCheck(_, _, _, _)
CleanupLoopNoExistsCheck(fs, paths, failAt, log) ==
    IF paths = <<>> THEN [files |-> fs, raised |-> FALSE, log |-> log]
    ELSE LET path == Head(paths) IN
         IF path # NoPath
         THEN IF failAt = 1 \/ path \notin fs
              THEN [files |-> fs, raised |-> TRUE, log |-> Append(log, path)]
              ELSE CleanupLoopNoExistsCheck(fs \ {path}, Tail(paths),
                               IF failAt = 0 THEN 0 ELSE failAt - 1, Append(log, path))
         ELSE CleanupLoopNoExistsCheck(fs, Tail(paths), failAt, log)

RECURSIVE CleanupLoop(_, _, _, _)
CleanupLoop(fs, paths, failAt, log) ==
    IF paths = <<>> THEN [files |-> fs, raised |-> FALSE, log |-> log]
    ELSE LET path == Head(paths) IN
         IF path # NoPath /\ path \in fs
         THEN IF failAt = 1
              THEN [files |-> fs, raised |-> TRUE, log |-> Append(log, path)]
              ELSE CleanupLoop(fs \ {path}, Tail(paths),
                               IF failAt = 0 THEN 0 ELSE failAt - 1, Append(log, path))
         ELSE CleanupLoop(fs, Tail(paths), failAt, log)

\* ------------------------------------------------------------------------
\* Actions
\* ------------------------------------------------------------------------
Set(r, rec) == req' = [req EXCEPT ![r] = rec]

\* an exception leaves analyze_frame: its locals are gone, no response is built
Raise(r, by, o, log) ==
    Set(r, [req[r] EXCEPT !.pc = "Errored", !.detections = <<>>,
                          !.annotated_path = NoPath, !.alert_sent = FALSE,
                          !.now = 0, !.last_time = 0, !.had_entry = FALSE,
                          !.raised_by = by, !.outcome = o, !.remove_log = log])

\* time passes
Tick ==
    /\ clock < MaxTime
    /\ clock' = clock + 1
    /\ UNCHANGED <<ALERT_COOLDOWN_SECONDS, last_alert_time, files, req, last_failed, alerts, delivered, probe>>

\* analyze_frame is entered with fresh locals for a request of camera c, on a
\* connection that has no request in progress: save_temp_file
SaveTempFile(r, c) ==
    /\ req[r].pc \notin Running
    /\ \A q \in Requests : q < r => req[q].pc \in Running
    /\ EventLoopFree
    /\ LET own == {temp_path(r), annotated_file(r)} IN
       files' = (files \ own) \cup (IF files \cap own # {} THEN {Stale} ELSE {})
                               \cup {temp_path(r)}
    /\ Set(r, [InitRequest EXCEPT !.pc = "Received", !.cameraId = c])
    /\ UNCHANGED <<clock, ALERT_COOLDOWN_SECONDS, last_alert_time, last_failed, alerts, delivered, probe>>

\* detect_missing_ppe(temp_file); the detector may raise
DetectMissingPpe(r, raw, raises) ==
    /\ req[r].pc = "Received"
    /\ IF raises
       THEN Raise(r, "detector", NoOutcome, <<>>)
       ELSE LET dets == DetectLoop(raw) IN
            Set(r, [req[r] EXCEPT
                      !.pc = IF HasDetections(dets) THEN "Detected" ELSE "NoDetections",
                      !.terminal = IF HasDetections(dets) THEN None ELSE "NoDetections",
                      !.detections = dets,
                      !.annotated_path = NoPath,
                      !.alert_sent = FALSE])
    /\ UNCHANGED <<clock, ALERT_COOLDOWN_SECONDS, last_alert_time, files, last_failed, alerts, delivered, probe>>

\* draw_bounding_boxes(temp_file, detections)
\*   "ok"          a new annotated file is written
\*   "undecodable" imread returns None: the upload path is returned
\*   "unwritten"   imwrite fails without raising: the path is returned, no file
\*   "raise"       the drawing library raises
DrawBoundingBoxes(r, outcome) ==
    /\ req[r].pc = "Detected"
    /\ CASE outcome = "ok" ->
              /\ files' = files \cup {annotated_file(r)}
              /\ Set(r, [req[r] EXCEPT !.pc = "Annotated",
                                       !.annotated_path = annotated_file(r)])
         [] outcome = "undecodable" ->
              /\ files' = files
              /\ Set(r, [req[r] EXCEPT !.pc = "Annotated",
                                       !.annotated_path = temp_path(r)])
         [] outcome = "unwritten" ->
              /\ files' = files
              /\ Set(r, [req[r] EXCEPT !.pc = "Annotated",
                                       !.annotated_path = annotated_file(r)])
         [] outcome = "raise" ->
              /\ files' = files
              /\ Raise(r, "annotator", NoOutcome, <<>>)
    /\ UNCHANGED <<clock, ALERT_COOLDOWN_SECONDS, last_alert_time, last_failed, alerts, delivered, probe>>

\* handle_alert up to the call of send_alert: sample the clock, read the
\* camera's entry, skip the alert while the cooldown is active
HandleAlertGate(r) ==
    /\ req[r].pc = "Annotated"
    /\ LET c == req[r].cameraId
           n == clock
           last == GetLastTime(c)
       IN  IF CooldownActive(n, last)
           THEN Set(r, [req[r] EXCEPT !.pc = "Suppressed", !.terminal = "Suppressed",
                                      !.now = n, !.last_time = last,
                                      !.had_entry = (c \in DOMAIN last_alert_time),
                                      !.alert_sent = FALSE])
           ELSE Set(r, [req[r] EXCEPT !.pc = "Dispatching",
                                      !.now = n, !.last_time = last,
                                      !.had_entry = (c \in DOMAIN last_alert_time)])
    /\ UNCHANGED <<clock, ALERT_COOLDOWN_SECONDS, last_alert_time, files, last_failed, alerts, delivered, probe>>

\* send_alert ends with outcome o and handle_alert records the alert and
\* returns, unless an exception passes through both
SendAlertReturns(r, o) ==
    /\ req[r].pc = "Dispatching"
    /\ LET c == req[r].cameraId
           exists == req[r].annotated_path \in files
           res == SendAlert(exists, IF exists THEN o ELSE [kind |-> "open_error", status |-> 0])
       IN  IF res = "raise"
           THEN /\ Raise(r, "dispatcher", [kind |-> "open_error", status |-> 0], <<>>)
                /\ UNCHANGED <<last_alert_time, last_failed, alerts, delivered>>
           ELSE LET success == (res = "True") IN
                /\ last_alert_time' = Record(success, c, req[r].now)
                /\ last_failed' = [last_failed EXCEPT
                                     ![c] = IF success THEN {} ELSE {req[r].now}]
                /\ alerts' = [alerts EXCEPT
                                ![c] = IF success THEN @ \cup {req[r].now} ELSE @]
                /\ delivered' = (IF success THEN {<<c, clock>>} ELSE delivered)
                /\ Set(r, [req[r] EXCEPT
                             !.pc = IF success THEN "Sent" ELSE "Failed",
                             !.terminal = IF success THEN "Sent" ELSE "Failed",
                             !.calls = @ + 1,
                             !.outcome = o,
                             !.alert_sent = HandleAlertResult(success)])
    /\ UNCHANGED <<clock, ALERT_COOLDOWN_SECONDS, files, probe>>

\* the cleanup loop of analyze_frame
Cleanup(r, failAt) ==
    /\ req[r].pc \in Terminals
    /\ LET res == CleanupLoop(files, <<temp_path(r), req[r].annotated_path>>, failAt, <<>>) IN
       /\ files' = res.files
       /\ IF res.raised
          THEN Raise(r, "cleanup", NoOutcome, res.log)
          ELSE Set(r, [req[r] EXCEPT !.pc = "CleanedUp", !.cleaned = TRUE,
                                     !.now = 0, !.last_time = 0, !.had_entry = FALSE,
                                     !.outcome = NoOutcome, !.remove_log = res.log])
    /\ UNCHANGED <<clock, ALERT_COOLDOWN_SECONDS, last_alert_time, last_failed, alerts, delivered, probe>>

\* the return statement of analyze_frame
Respond(r) ==
    /\ req[r].pc = "CleanedUp"
    /\ Set(r, [req[r] EXCEPT
                 !.pc = "Responded", !.detections = <<>>,
                 !.annotated_path = NoPath, !.alert_sent = FALSE,
                 !.response = [cameraId |-> req[r].cameraId,
                               detections |-> req[r].detections,
                               alertSent |-> req[r].alert_sent]])
    /\ UNCHANGED <<clock, ALERT_COOLDOWN_SECONDS, last_alert_time, files, last_failed, alerts, delivered, probe>>

Next ==
    \/ Tick
    \/ \E r \in Requests, c \in Cameras : SaveTempFile(r, c)
    \/ \E r \in Requests, raw \in RawResults, raises \in BOOLEAN :
          DetectMissingPpe(r, raw, raises)
    \/ \E r \in Requests, o \in {"ok", "undecodable", "unwritten", "raise"} :
          DrawBoundingBoxes(r, o)
    \/ \E r \in Requests : HandleAlertGate(r)
    \/ \E r \in Requests, o \in Outcomes : SendAlertReturns(r, o)
    \/ \E r \in Requests, k \in 0..2 : Cleanup(r, k)
    \/ \E r \in Requests : Respond(r)

Spec == Init /\ [][Next]_vars

\* detect_missing_ppe on its own: request 1 of cam-1 has saved its upload,
\* the detector reports probe; cam-1 may have alerted one cooldown ago
InitDetect ==
    /\ ALERT_COOLDOWN_SECONDS \in CooldownChoices
    /\ clock = ALERT_COOLDOWN_SECONDS
    /\ \E alerted \in BOOLEAN :
          /\ last_alert_time = [k \in (IF alerted THEN {"cam-1"} ELSE {}) |-> clock]
          /\ alerts = [c \in Cameras |->
                         IF alerted /\ c = "cam-1" THEN {clock} ELSE {}]
          /\ delivered = (IF alerted THEN {<<"cam-1", clock>>} ELSE {})
    /\ last_failed = [c \in Cameras |-> {}]
    /\ files = {temp_path(1)}
    /\ req = [r \in Requests |->
                IF r = 1 THEN [InitRequest EXCEPT !.pc = "Received", !.cameraId = "cam-1"]
                ELSE InitRequest]
    /\ probe \in ProbeInputs

NextDetect == \E raises \in BOOLEAN : DetectMissingPpe(1, probe, raises)

DetectSpec == InitDetect /\ [][NextDetect]_vars

\* ------------------------------------------------------------------------
\* Properties
\* ------------------------------------------------------------------------
\* the step in which request r passes the cooldown gate of handle_alert
GateStep(r) == req[r].pc = "Annotated" /\ req'[r].pc # "Annotated"

\* the step in which send_alert returns b to handle_alert for request r
DispatchStep(r, b) ==
    /\ req[r].pc = "Dispatching"
    /\ req'[r].pc = (IF b THEN "Sent" ELSE "Failed")

Abs(i) == IF i < 0 THEN -i ELSE i

\* C1: when camera c has an alert recorded at t1 and a request with detections
\* for c reaches the gate at t2 > t1 with t2 - t1 < cooldown, the request is
\* suppressed: handle_alert returns false, no outbound call is made and
\* last_alert_time[c] stays t1.
C1_SuppressedWithinCooldown ==
    /\ [][\A r \in Requests :
            LET c == req[r].cameraId IN
            (/\ GateStep(r)
             /\ c \in DOMAIN last_alert_time
             /\ last_alert_time[c] < clock
             /\ clock - last_alert_time[c] < ALERT_COOLDOWN_SECONDS)
            => /\ req'[r].pc = "Suppressed"
               /\ req'[r].alert_sent = FALSE
               /\ req'[r].calls = 0
               /\ last_alert_time' = last_alert_time]_vars
    /\ [](\A r \in Requests :
            req[r].terminal = "Suppressed"
            => /\ req[r].calls = 0
               /\ req[r].alert_sent = FALSE
               /\ (req[r].pc = "Responded" => req[r].response.alertSent = FALSE))

C1_Witness ==
    \E r \in Requests :
        /\ req[r].pc = "Suppressed"
        /\ req[r].had_entry
        /\ req[r].last_time < req[r].now
        /\ req[r].now - req[r].last_time < ALERT_COOLDOWN_SECONDS
        /\ last_alert_time[req[r].cameraId] = req[r].last_time

\* C2: when t1 is the last recorded alert time of camera c and a request with
\* detections for c reaches the gate at t2 > t1 with t2 - t1 >= cooldown, the
\* request is admitted: send_alert is called (t2 - t1 = cooldown admits).
C2_AdmittedAfterCooldown ==
    [][\A r \in Requests :
         LET c == req[r].cameraId IN
         (/\ GateStep(r)
          /\ c \in DOMAIN last_alert_time
          /\ last_alert_time[c] < clock
          /\ clock - last_alert_time[c] >= ALERT_COOLDOWN_SECONDS)
         => req'[r].pc = "Dispatching"]_vars

C2_Witness ==
    \E r \in Requests :
        /\ req[r].pc = "Dispatching"
        /\ req[r].had_entry
        /\ req[r].now - req[r].last_time = ALERT_COOLDOWN_SECONDS

\* C3: a camera without an entry in last_alert_time is admitted on its first
\* detection, whatever the current time and the configured cooldown.
C3_FirstDetectionAdmitted ==
    [][\A r \in Requests :
         (GateStep(r) /\ req[r].cameraId \notin DOMAIN last_alert_time)
         => req'[r].pc = "Dispatching"]_vars

\* C4: two requests for the same camera are never both admitted and both
\* successfully dispatched with gate times less than one cooldown apart,
\* under any interleaving of the requests.
C4_NoTwoAlertsWithinCooldown ==
    [][\A r \in Requests :
         DispatchStep(r, TRUE)
         => \A t \in alerts[req[r].cameraId] :
               Abs(req[r].now - t) >= ALERT_COOLDOWN_SECONDS]_vars

C4_Witness ==
    \E c \in Cameras : Cardinality(alerts[c]) >= 2

\* C5: when send_alert returns false for a request of camera c,
\* last_alert_time is what it was before the attempt (an absent entry stays
\* absent); the mapping changes only in a step where send_alert returned true.
C5_FailedDispatchLeavesMapping ==
    [][/\ \A r \in Requests :
            DispatchStep(r, FALSE) => last_alert_time' = last_alert_time
       /\ last_alert_time' # last_alert_time
            => \E r \in Requests : DispatchStep(r, TRUE)]_vars

C5_Witness ==
    \E r \in Requests :
        /\ req[r].pc = "Failed"
        /\ req[r].calls = 1
        /\ ~req[r].had_entry
        /\ req[r].cameraId \notin DOMAIN last_alert_time

\* C6: when a request has ended, by returning or by an exception of the
\* detector, the annotator or the dispatcher, neither its saved upload nor
\* its annotated image exists any more.
C6_ArtifactsRemoved ==
    \A r \in Requests :
        req[r].pc \in {"Responded", "Errored"}
        => /\ temp_path(r) \notin files
           /\ annotated_file(r) \notin files

\* C7: in every completed request, alertSent is true exactly when the request
\* reached the Sent terminal (detections non-empty, gate admitted, dispatch
\* returned true); it is false for NoDetections, Suppressed and Failed.
C7_AlertSentIffSent ==
    \A r \in Requests :
        req[r].pc = "Responded"
        => /\ req[r].response.alertSent = TRUE <=> req[r].terminal = "Sent"
           /\ req[r].terminal \in Terminals
           /\ req[r].terminal = "Sent"
                => req[r].response.detections # <<>> /\ req[r].calls = 1

C7_Witness ==
    \E r \in Requests :
        /\ req[r].pc = "Responded"
        /\ req[r].terminal = "Sent"
        /\ req[r].response.alertSent = TRUE

C9_EndsThroughCleanup ==
    \A r \in Requests :
        req[r].pc \in {"Responded", "Errored"} => req[r].cleaned

\* C10: after a request for camera c was admitted at time t and its dispatch
\* returned false, the next request with detections for c at a time t' >= t,
\* with no successful dispatch for c in between, is admitted by the gate.
C10_FailureDoesNotConsumeCooldown ==
    [][\A r \in Requests :
         LET c == req[r].cameraId IN
         (/\ GateStep(r)
          /\ \E t \in last_failed[c] : clock >= t)
         => req'[r].pc = "Dispatching"]_vars

C10_Witness ==
    \E r \in Requests :
        /\ req[r].pc = "Dispatching"
        /\ \E t \in last_failed[req[r].cameraId] : req[r].now >= t

Is2xx(o) == o.kind = "response" /\ 200 <= o.status /\ o.status < 300

\* C11: send_alert returns true only when the backend answered with a 2xx
\* status; for every other outcome of the outbound call (connection error,
\* timeout, any other status, failure to open the image file) it returns
\* false, and it never raises to its caller.
C11_TrueOnlyOn2xxNeverRaises ==
    \A r \in Requests :
        req[r].outcome # NoOutcome
        => IF Is2xx(req[r].outcome)
           THEN req[r].pc = "Sent"
           ELSE req[r].pc = "Failed"

\* a request past the detection step whose detection list is empty
NoQualifying(q) ==
    \/ /\ q.pc \in {"Detected", "NoDetections", "Annotated", "Suppressed",
                    "Dispatching", "Sent", "Failed", "CleanedUp"}
       /\ q.detections = <<>>
    \/ /\ q.pc = "Responded"
       /\ q.response.detections = <<>>

\* C12: a request whose frame has no qualifying detection answers with
\* detections = [] and alertSent = false, makes no outbound alert call,
\* creates no annotated artifact and leaves last_alert_time unchanged.
C12_NoDetectionsNoEffect ==
    /\ [](\A r \in Requests :
            NoQualifying(req[r])
            => /\ req[r].terminal = "NoDetections"
               /\ req[r].calls = 0
               /\ req[r].annotated_path = NoPath
               /\ annotated_file(r) \notin files
               /\ req[r].alert_sent = FALSE
               /\ (req[r].pc = "Responded" => req[r].response.alertSent = FALSE))
    /\ [][\A r \in Requests :
            (req'[r] # req[r] /\ NoQualifying(req'[r]))
            => last_alert_time' = last_alert_time]_vars

C12_Witness ==
    \E r \in Requests :
        /\ req[r].pc = "Responded"
        /\ req[r].response.detections = <<>>
        /\ req[r].response.alertSent = FALSE
        /\ DOMAIN last_alert_time # {}

\* C13: while a request for one camera is inside the detector call or the
\* outbound alert call, a request for another camera can be taken up.
C13_DifferentCamerasDoNotBlock ==
    \A r \in Requests :
        req[r].pc \in {"Received", "Dispatching"}
        => ENABLED (\E q \in Requests, c \in Cameras \ {req[r].cameraId} :
                       SaveTempFile(q, c))

\* C14: a dispatch failure is never a request-level error: the request
\* completes with its detections and alertSent = false; only a failure of
\* the detector ends a request with an error.
C14_OnlyDetectorFailurePropagates ==
    \A r \in Requests :
        /\ (req[r].pc = "Responded" /\ req[r].terminal = "Failed")
             => /\ req[r].response.detections # <<>>
                /\ req[r].response.alertSent = FALSE
        /\ req[r].pc = "Errored" => req[r].raised_by = "detector"

\* C15: a failing removal of a temporary file does not end the request with
\* an error.
C15_CleanupFailureNotEscalated ==
    \A r \in Requests :
        req[r].pc = "Errored" => req[r].raised_by # "cleanup"

\* the detections the claim describes for a detector output
Qualifies(box) ==
    box.cls \in DOMAIN CLASS_TO_PPE /\ box.conf >= YOLO_CONFIDENCE_THRESHOLD

ExpectedDetections(raw) ==
    LET kept == SelectSeq(raw, Qualifies) IN
    [i \in 1..Len(kept) |->
        [missingPpe |-> CLASS_TO_PPE[kept[i].cls],
         confidence |-> kept[i].conf,
         bbox |-> [x |-> PixelInt(kept[i].x1),
                   y |-> PixelInt(kept[i].y1),
                   width |-> PixelInt(kept[i].x2) - PixelInt(kept[i].x1),
                   height |-> PixelInt(kept[i].y2) - PixelInt(kept[i].y1)]]]

\* C16: detect_missing_ppe returns, in detector order, one normalized
\* detection for each raw detection whose class is a key of CLASS_TO_PPE and
\* whose confidence is >= the threshold, with the box (x1, y1, x2 - x1,
\* y2 - y1) of the integer corners; the others are dropped and no shared
\* state changes.
C16_DetectionsAreTheQualifyingBoxes ==
    /\ [](req[1].pc \in {"Detected", "NoDetections"}
            => req[1].detections = ExpectedDetections(probe))
    /\ [][/\ last_alert_time' = last_alert_time
          /\ files' = files
          /\ ALERT_COOLDOWN_SECONDS' = ALERT_COOLDOWN_SECONDS]_vars

C16_Witness ==
    /\ req[1].pc = "Detected"
    /\ Len(probe) = 3
    /\ Len(req[1].detections) = 2
    /\ req[1].detections[1].missingPpe = "gloves"
    /\ req[1].detections[2].missingPpe = "hardhat"
    /\ req[1].detections[2].bbox = [x |-> 1, y |-> 1, width |-> 2, height |-> 3]

\* C17: a request makes at most one outbound alert call, and only after the
\* gate admitted it with a non-empty detection list; nothing calls again
\* for a suppressed or failed request.
C17_AtMostOneCallAfterAdmission ==
    /\ [](\A r \in Requests :
            /\ req[r].calls <= 1
            /\ req[r].terminal = "Suppressed" => req[r].calls = 0)
    /\ [][\A r \in Requests :
            req'[r].calls > req[r].calls
            => /\ req[r].pc = "Dispatching"
               /\ req[r].calls = 0
               /\ req[r].detections # <<>>
               /\ req[r].now - req[r].last_time >= ALERT_COOLDOWN_SECONDS
               /\ req'[r].terminal \in {"Sent", "Failed"}]_vars

C17_Witness ==
    \E r \in Requests :
        /\ req[r].pc = "Responded"
        /\ req[r].terminal = "Failed"
        /\ req[r].calls = 1

\* C18: a step of a request for camera c leaves the entry of every other
\* camera as it was, and no step removes a key of last_alert_time.
C18_OtherEntriesUntouched ==
    [][/\ DOMAIN last_alert_time \subseteq DOMAIN last_alert_time'
       /\ \A r \in Requests :
            req'[r] # req[r]
            => \A k \in DOMAIN last_alert_time \cap DOMAIN last_alert_time' :
                  k # req'[r].cameraId => last_alert_time'[k] = last_alert_time[k]]_vars

C18_Witness ==
    \E r \in Requests :
        /\ req[r].pc = "Sent"
        /\ ~req[r].had_entry
        /\ DOMAIN last_alert_time = Cameras

\* C19: after a successful dispatch for camera c, last_alert_time[c] is the
\* time sampled at the gate, not the time at which the dispatch completed;
\* the next alert for c can so be admitted less than one cooldown after the
\* previous one was delivered.
C19_RecordsGateTime ==
    [][\A r \in Requests :
         DispatchStep(r, TRUE)
         => last_alert_time'[req[r].cameraId] = req[r].now]_vars

C19_Witness ==
    \E r \in Requests :
        /\ req[r].pc = "Dispatching"
        /\ req[r].had_entry
        /\ \E d \in delivered :
              /\ d[1] = req[r].cameraId
              /\ d[2] > req[r].last_time
              /\ req[r].now - d[2] < ALERT_COOLDOWN_SECONDS

NoDuplicates(log) ==
    \A i, j \in 1..Len(log) : i # j => log[i] # log[j]

\* C20: when the annotator cannot decode the frame it returns the upload
\* path and creates no file; the request still passes the gate and the
\* dispatch with the upload, and the cleanup removes that one file once,
\* without a second removal for the second occurrence of the path.
C20_UndecodableFrameSingleRemoval ==
    \A r \in Requests :
        /\ (/\ req[r].pc \in {"Annotated", "Suppressed", "Dispatching", "Sent", "Failed"}
            /\ req[r].annotated_path = temp_path(r))
             => /\ temp_path(r) \in files
                /\ annotated_file(r) \notin files
        /\ (req[r].pc = "CleanedUp" /\ req[r].annotated_path = temp_path(r))
             => /\ req[r].remove_log = <<temp_path(r)>>
                /\ temp_path(r) \notin files
        /\ NoDuplicates(req[r].remove_log)

C20_Witness ==
    \E r \in Requests :
        /\ req[r].pc = "CleanedUp"
        /\ req[r].annotated_path = temp_path(r)
        /\ req[r].terminal = "Sent"
        /\ req[r].calls = 1
        /\ req[r].remove_log = <<temp_path(r)>>

====
